---- MODULE Spec2Model ----
(***************************************************************************)
(* A model of parser.py of go_geneset: parse_obo, parse_gaf, get_NCBI_id   *)
(* and the generator load_data.                                            *)
(*                                                                         *)
(* Strings of the data files are sequences of atoms (a separator such as   *)
(* "|", ": " or " ! " is an atom of its own), so that split, replace,      *)
(* startswith and concatenation are computed and not assumed.  A Python    *)
(* dict is a function whose DOMAIN is the dict's key set; d.get(k) is not  *)
(* None is k \in DOMAIN d.  Objects that the code shares by reference      *)
(* (the records of parse_obo) live in a heap and are named by their index. *)
(***************************************************************************)
EXTENDS Integers, Sequences, FiniteSets, TLC

VARIABLES obo, oboRead, oboDone,
          gaf, gafRead, gafDone,
          ncbi,
          pc, goterms, fileNo, docs, idx, annotations, NCBI_dict, calls,
          visited, output, fault

oboVars  == <<obo, oboRead, oboDone>>
gafVars  == <<gaf, gafRead, gafDone>>
ncbiVars == <<ncbi>>
loadVars == <<pc, goterms, fileNo, docs, idx, annotations, NCBI_dict, calls,
              visited, output, fault>>
vars     == <<obo, oboRead, oboDone, gaf, gafRead, gafDone, ncbi,
              pc, goterms, fileNo, docs, idx, annotations, NCBI_dict, calls,
              visited, output, fault>>

(***************************************************************************)
(* Bounds of the model.                                                    *)
(***************************************************************************)
MaxOboLines == 8
MaxGafRows  == 3
MaxGenes    == 3
MaxFiles    == 2
MaxFileRows == 3

(***************************************************************************)
(* Python primitives on dicts, lists and strings.                          *)
(***************************************************************************)
EmptyDict == <<>>

Put(d, k, v) == [x \in (DOMAIN d) \cup {k} |-> IF x = k THEN v ELSE d[x]]

Has(d, k) == k \in DOMAIN d

Range(s) == {s[i] : i \in DOMAIN s}

\* the index of the first occurrence of atom a in s, 0 when there is none
RECURSIVE FirstAt(_, _, _)
FirstAt(s, a, i) ==
    IF i > Len(s) THEN 0
    ELSE IF s[i] = a THEN i
    ELSE FirstAt(s, a, i + 1)

\* str.replace(a, ""): every occurrence of the atom is removed
RECURSIVE Remove(_, _)
Remove(s, a) ==
    IF s = <<>> THEN <<>>
    ELSE IF Head(s) = a THEN Remove(Tail(s), a)
    ELSE <<Head(s)>> \o Remove(Tail(s), a)

\* str.split(sep): the pieces between the separators, at least one piece
RECURSIVE Split(_, _)
Split(s, sep) ==
    LET i == FirstAt(s, sep, 1)
    IN  IF i = 0 THEN <<s>>
        ELSE <<SubSeq(s, 1, i - 1)>> \o Split(SubSeq(s, i + 1, Len(s)), sep)

\* str.split(sep, 1): at most two pieces
Split1(s, sep) ==
    LET i == FirstAt(s, sep, 1)
    IN  IF i = 0 THEN <<s>>
        ELSE <<SubSeq(s, 1, i - 1), SubSeq(s, i + 1, Len(s))>>

StartsWith(s, a) == Len(s) > 0 /\ s[1] = a

(***************************************************************************)
(* parse_obo.  The parser state is the locals of the function: go_terms    *)
(* (key -> reference), record, term_data (a reference), with the heap of   *)
(* the dicts the references name.  heap[1] is the dict of line 142.        *)
(***************************************************************************)
NL       == "\n"
SepKV    == ": "
Quote    == "\""
Bang     == "!"
SepBang  == " ! "
TermMark == "[Term]"

K_id     == <<"id">>
K_alt_id == <<"alt_id">>
K_name   == <<"name">>
K_ns     == <<"namespace">>
K_def    == <<"def">>

OboInit ==
    [go_terms |-> EmptyDict, heap |-> <<EmptyDict>>, record |-> FALSE,
     term_data |-> 1, fault |-> "none"]

\* line 144
StripNL(raw) == Remove(raw, NL)

\* value.find("!") != -1
HasBang(value) == \E i \in DOMAIN value : value[i] \in {Bang, SepBang}

\* lines 158-160
CleanValue(v) ==
    LET value == Remove(v, Quote)
    IN  IF HasBang(value) THEN Split1(value, SepBang)[1] ELSE value

\* lines 148-153, the body of "if record:" reached on a blank line.
\* OboCommitCopy is the faulty variant that stores a copy of the record
\* under alt_id instead of the record itself.
OboCommitCopy(st) ==
    IF ~Has(st.heap[st.term_data], K_id) THEN [st EXCEPT !.fault = "KeyError"]
    ELSE LET td == st.heap[st.term_data]
             g1 == Put(st.go_terms, td[K_id], st.term_data)
         IN  IF Has(td, K_alt_id)
             THEN [st EXCEPT !.heap = Append(st.heap, td),
                             !.go_terms = Put(g1, td[K_alt_id], Len(st.heap) + 1)]
             ELSE [st EXCEPT !.go_terms = g1]

OboCommit(st) ==
    IF ~Has(st.heap[st.term_data], K_id) THEN [st EXCEPT !.fault = "KeyError"]
    ELSE LET td == st.heap[st.term_data]
             g1 == Put(st.go_terms, td[K_id], st.term_data)
         IN  IF Has(td, K_alt_id)
             THEN [st EXCEPT !.go_terms = Put(g1, td[K_alt_id], st.term_data)]
             ELSE [st EXCEPT !.go_terms = g1]

\* lines 146-154
OboBlank(st, line) ==
    IF line = <<>>
    THEN LET c == IF st.record THEN OboCommit(st) ELSE st
         IN  IF c.fault # "none" THEN c ELSE [c EXCEPT !.record = FALSE]
    ELSE st

\* lines 156-161.  OboStoreNoGuard is the faulty variant without the test
\* of the record flag.
OboStoreNoGuard(st, line) ==
    IF st.fault # "none" THEN st
    ELSE LET kv == Split1(line, SepKV)
         IN  IF Len(kv) # 2 THEN [st EXCEPT !.fault = "ValueError"]
             ELSE [st EXCEPT !.heap[st.term_data] =
                                 Put(@, kv[1], CleanValue(kv[2]))]

OboStore(st, line) ==
    IF st.fault # "none" \/ ~st.record THEN st
    ELSE LET kv == Split1(line, SepKV)
         IN  IF Len(kv) # 2 THEN [st EXCEPT !.fault = "ValueError"]
             ELSE [st EXCEPT !.heap[st.term_data] =
                                 Put(@, kv[1], CleanValue(kv[2]))]

\* lines 163-165
OboStart(st, line) ==
    IF st.fault = "none" /\ StartsWith(line, TermMark)
    THEN [st EXCEPT !.record = TRUE,
                    !.heap = Append(@, EmptyDict),
                    !.term_data = Len(st.heap) + 1]
    ELSE st

\* lines 144-165, one iteration of the loop over the lines of the file
OboStep(st, raw) ==
    LET line == StripNL(raw)
    IN  OboStart(OboStore(OboBlank(st, line), line), line)

\* lines 139-166 as a function of the file
RECURSIVE OboFold(_, _)
OboFold(st, lines) ==
    IF lines = <<>> \/ st.fault # "none" THEN st
    ELSE OboFold(OboStep(st, Head(lines)), Tail(lines))

parse_obo(lines) == OboFold(OboInit, lines)

\* whether the iteration on this line runs lines 148-153
OboCommits(st, raw) == StripNL(raw) = <<>> /\ st.record

L_blank   == <<NL>>
L_term    == <<TermMark, NL>>
L_typedef == <<"[Typedef]", NL>>
L_id(x)   == <<"id", SepKV, x, NL>>
L_alt(x)  == <<"alt_id", SepKV, x, NL>>
L_name    == <<"name", SepKV, Quote, "n", Quote, SepBang, "c", NL>>
L_ns      == <<"namespace", SepKV, "bp", NL>>
L_def     == <<"def", SepKV, Quote, "d", Bang, Quote, NL>>

OboLines ==
    {L_blank, L_term, L_typedef, L_id("GO:1"), L_id("GO:2"), L_alt("GO:2"),
     L_alt("GO:3"), L_name}

OboIdle ==
    /\ obo = OboInit
    /\ oboRead = [n |-> 0, last |-> <<>>, log |-> <<>>]
    /\ oboDone = FALSE

InitObo ==
    /\ OboIdle
    /\ gaf = 0 /\ gafRead = <<>> /\ gafDone = FALSE
    /\ ncbi = 0
    /\ pc = "off" /\ goterms = 0 /\ fileNo = 0 /\ docs = 0 /\ idx = 0
    /\ annotations = 0 /\ NCBI_dict = 0 /\ calls = <<>> /\ visited = <<>>
    /\ output = <<>> /\ fault = "none"

\* the loop of line 143 takes the next line of the file
ReadLine ==
    /\ ~oboDone /\ obo.fault = "none" /\ oboRead.n < MaxOboLines
    /\ \E raw \in OboLines :
          /\ obo' = OboStep(obo, raw)
          /\ oboRead' = [n |-> oboRead.n + 1, last |-> raw,
                         log |-> IF OboCommits(obo, raw) /\ obo'.fault = "none"
                                 THEN Append(oboRead.log, obo.term_data)
                                 ELSE oboRead.log]
    /\ UNCHANGED <<oboDone, gafVars, ncbiVars, loadVars>>

\* end of file: line 166 returns go_terms
OboEof ==
    /\ ~oboDone /\ obo.fault = "none"
    /\ oboDone' = TRUE
    /\ UNCHANGED <<obo, oboRead, gafVars, ncbiVars, loadVars>>

NextObo == ReadLine \/ OboEof

SpecObo == InitObo /\ [][NextObo]_vars

(***************************************************************************)
(* Claims about parse_obo (checked under SpecObo).                         *)
(***************************************************************************)
\* what a reader of the mapping sees: each key with its reference and the
\* record behind it
MapView(st) ==
    [k \in DOMAIN st.go_terms |-> <<st.go_terms[k], st.heap[st.go_terms[k]]>>]

\* the accumulator: the reference held by term_data and the dict it names
Accumulator(st) == <<st.term_data, st.heap[st.term_data]>>

\* the keys under which a committed record was stored
KeysOf(o) ==
    LET td == obo.heap[o]
    IN  {td[K_id]} \cup (IF Has(td, K_alt_id) THEN {td[K_alt_id]} ELSE {})

\* C3 as stated: in the returned mapping, for every record committed at a
\* blank line that has an id and an alt_id, both are keys and both refer
\* to the identical object.
C3_Original ==
    (oboDone /\ obo.fault = "none") =>
        \A i \in DOMAIN oboRead.log :
            LET td == obo.heap[oboRead.log[i]]
            IN  Has(td, K_alt_id) =>
                    /\ Has(obo.go_terms, td[K_id])
                    /\ Has(obo.go_terms, td[K_alt_id])
                    /\ obo.go_terms[td[K_id]] = obo.go_terms[td[K_alt_id]]

\* C3 amended: from its commit on, and in the returned mapping, the id and
\* the alt_id of such a record are keys that refer to the one record
\* object, as long as no record committed later is stored under either key.
C3_SharedRecord ==
    \A i \in DOMAIN oboRead.log :
        LET o  == oboRead.log[i]
            td == obo.heap[o]
        IN  (/\ Has(td, K_alt_id)
             /\ \A j \in DOMAIN oboRead.log :
                    j > i => KeysOf(oboRead.log[j]) \cap KeysOf(o) = {})
            => /\ Has(obo.go_terms, td[K_id])
               /\ Has(obo.go_terms, td[K_alt_id])
               /\ obo.go_terms[td[K_id]] = o
               /\ obo.go_terms[td[K_alt_id]] = o

\* C3 witness: a file was read to its end in which a record with distinct id and alt_id
\* was committed, another record was committed after it, and both keys
\* still name the first record
C3_Witness ==
    /\ oboDone /\ obo.fault = "none"
    /\ \E i \in DOMAIN oboRead.log :
          LET o  == oboRead.log[i]
              td == obo.heap[o]
          IN  /\ i < Len(oboRead.log)
              /\ Has(td, K_alt_id) /\ td[K_alt_id] # td[K_id]
              /\ obo.go_terms[td[K_id]] = o
              /\ obo.go_terms[td[K_alt_id]] = o

\* C10: the mapping changes only in an iteration that reads a blank line
\* while record is True; a line read while record is False leaves the
\* mapping alone and, unless it is the [Term] marker that opens a record,
\* leaves the accumulator alone; at end of file a record still open is not
\* referred to by the returned mapping.
C10_CommitOnlyAtBlankInside ==
    [][ /\ MapView(obo') # MapView(obo)
           => (StripNL(oboRead'.last) = <<>> /\ obo.record)
        /\ (oboRead'.n # oboRead.n /\ ~obo.record)
           => /\ MapView(obo') = MapView(obo)
              /\ ~StartsWith(StripNL(oboRead'.last), TermMark)
                 => Accumulator(obo') = Accumulator(obo)
        /\ (oboDone' /\ obo'.record)
           => \A k \in DOMAIN obo'.go_terms :
                 obo'.go_terms[k] # obo'.term_data ]_vars

\* C10 witness: end of file is reached with a record open that has an id, after another
\* record was committed, and the open record is under no key
C10_Witness ==
    /\ oboDone /\ obo.record
    /\ Len(oboRead.log) >= 1
    /\ Has(obo.heap[obo.term_data], K_id)
    /\ \A k \in DOMAIN obo.go_terms : obo.go_terms[k] # obo.term_data

(***************************************************************************)
(* parse_gaf.  A row is the list of its tab-separated columns, rec[0] of   *)
(* the code being row[1] here.  genesets is a dict in insertion order:     *)
(* ord lists its keys as inserted, rec holds the record of each key.       *)
(***************************************************************************)
Pipe      == "|"
TaxPrefix == "taxon:"
Q_NOT     == <<"NOT">>
Q_contrib == <<"contributes_to">>
Q_coloc   == <<"colocalizes_with">>

GafInit == [ord |-> <<>>, rec |-> EmptyDict, fault |-> "none"]

\* d.setdefault(key, set()).add(pair)
SetDefaultAdd(d, key, pair) ==
    Put(d, key, (IF Has(d, key) THEN d[key] ELSE {}) \cup {pair})

\* lines 105-110
GafNewTerm(gs, row) ==
    LET _id == row[5]
    IN  IF Has(gs.rec, _id) THEN gs
        ELSE IF Len(row) < 13 THEN [gs EXCEPT !.fault = "IndexError"]
        ELSE [gs EXCEPT
                !.ord = Append(@, _id),
                !.rec = Put(@, _id,
                            [k \in {"_id", "is_public", "taxid"} |->
                                CASE k = "_id"       -> _id
                                  [] k = "is_public" -> TRUE
                                  [] k = "taxid"     ->
                                        Remove(Split(row[13], Pipe)[1],
                                               TaxPrefix)])]

\* lines 115-130: the three "if" and the "else" of the last of them
GafBuckets(d, uniprot, symbol, qualifiers) ==
    LET pair == <<uniprot, symbol>>
        d1 == IF Q_NOT \in Range(qualifiers)
              THEN SetDefaultAdd(d, "excluded_genes", pair) ELSE d
        d2 == IF Q_contrib \in Range(qualifiers)
              THEN SetDefaultAdd(d1, "contributing_genes", pair) ELSE d1
    IN  IF Q_coloc \in Range(qualifiers)
        THEN SetDefaultAdd(d2, "colocalized_genes", pair)
        ELSE SetDefaultAdd(d2, "genes", pair)

\* lines 103-130, one iteration of the loop over the rows
GafStep(gs, row) ==
    IF StartsWith(row[1], "!") THEN gs
    ELSE IF Len(row) < 5 THEN [gs EXCEPT !.fault = "IndexError"]
    ELSE LET g1 == GafNewTerm(gs, row)
         IN  IF g1.fault # "none" THEN g1
             ELSE [g1 EXCEPT !.rec[row[5]] =
                        GafBuckets(@, row[2], row[3], Split(row[4], Pipe))]

\* lines 100-131 as a function of the file
RECURSIVE GafFold(_, _)
GafFold(gs, rows) ==
    IF rows = <<>> \/ gs.fault # "none" THEN gs
    ELSE GafFold(GafStep(gs, Head(rows)), Tail(rows))

parse_gaf(rows) == GafFold(GafInit, rows)

\* a data row of 13 columns
GafRow(uniprot, symbol, qual, go, taxon) ==
    <<<<"UniProtKB">>, <<uniprot>>, <<symbol>>, qual, <<go>>,
      <<>>, <<>>, <<>>, <<>>, <<>>, <<>>, <<>>, taxon>>

R_comment == << <<"!", "gaf-version: 2.1">> >>
R_short   == << <<"UniProtKB">>, <<"P1">>, <<"G1">> >>

Tax9606  == <<TaxPrefix, "9606">>
Tax10090 == <<TaxPrefix, "10090", Pipe, TaxPrefix, "9606">>

GafQuals ==
    {<<>>, <<"NOT">>, <<"contributes_to">>, <<"colocalizes_with">>}

GafGenes == {<<"P1", "G1">>, <<"P2", "G2">>}

GafRows ==
    {GafRow(g[1], g[2], q, t, Tax9606) :
        g \in GafGenes, q \in GafQuals, t \in {"GO:1", "GO:2"}}
    \cup {GafRow("P1", "G1", <<"NOT", Pipe, "colocalizes_with">>, "GO:1", Tax10090),
          GafRow("P2", "G1", <<"enables", Pipe, "contributes_to">>, "GO:2", Tax10090),
          R_comment, R_short}

InitGaf ==
    /\ gaf = GafInit /\ gafRead = <<>> /\ gafDone = FALSE
    /\ obo = 0 /\ oboRead = 0 /\ oboDone = FALSE
    /\ ncbi = 0
    /\ pc = "off" /\ goterms = 0 /\ fileNo = 0 /\ docs = 0 /\ idx = 0
    /\ annotations = 0 /\ NCBI_dict = 0 /\ calls = <<>> /\ visited = <<>>
    /\ output = <<>> /\ fault = "none"

\* the loop of line 102 takes the next row of the file
ReadRow ==
    /\ ~gafDone /\ gaf.fault = "none" /\ Len(gafRead) < MaxGafRows
    /\ \E row \in GafRows :
          /\ gaf' = GafStep(gaf, row)
          /\ gafRead' = Append(gafRead, row)
    /\ UNCHANGED <<gafDone, oboVars, ncbiVars, loadVars>>

\* end of file: line 131 returns genesets
GafEof ==
    /\ ~gafDone /\ gaf.fault = "none"
    /\ gafDone' = TRUE
    /\ UNCHANGED <<gaf, gafRead, oboVars, ncbiVars, loadVars>>

NextGaf == ReadRow \/ GafEof

SpecGaf == InitGaf /\ [][NextGaf]_vars

(***************************************************************************)
(* Claims about parse_gaf (checked under SpecGaf).                         *)
(***************************************************************************)
IsDataRow(row) == ~StartsWith(row[1], "!") /\ Len(row) >= 13

\* the row carries none of NOT, contributes_to, colocalizes_with
Unqualified(row) ==
    Range(Split(row[4], Pipe)) \cap {Q_NOT, Q_contrib, Q_coloc} = {}

Bucket(d, key) == IF Has(d, key) THEN d[key] ELSE {}

\* C1 as stated: after any sequence of rows, the "genes" set of a term is
\* exactly the set of (protein identifier, symbol) pairs of that term's rows
\* that carry none of the three special qualifiers.
C1_Original ==
    gaf.fault = "none" =>
        \A t \in DOMAIN gaf.rec :
            Bucket(gaf.rec[t], "genes") =
                {<<gafRead[i][2], gafRead[i][3]>> :
                    i \in {j \in DOMAIN gafRead :
                              /\ IsDataRow(gafRead[j])
                              /\ gafRead[j][5] = t
                              /\ Unqualified(gafRead[j])}}

(***************************************************************************)
(* get_NCBI_id.  The gene-information service is outside the program: for  *)
(* a list of query terms it answers, per term, with no hit (the term is    *)
(* reported missing) or with hits, each carrying the term it answers and,  *)
(* if the gene has one, an entrezgene number.  An answer is the list of    *)
(* the hits' numbers, NoEntrez standing for a hit without the field.       *)
(***************************************************************************)
NoEntrez == 0

\* the gene IDs the service may return
GeneIds == {7, 8}

Answers == {<<>>, <<7>>, <<7, 8>>, <<NoEntrez>>}

\* the hits of one query term
HitsOf(q, a) ==
    IF a = <<>> THEN <<[k \in {"query", "notfound"} |->
                          IF k = "query" THEN q ELSE TRUE]>>
    ELSE [i \in DOMAIN a |->
            IF a[i] = NoEntrez THEN [k \in {"query"} |-> q]
            ELSE [k \in {"query", "entrezgene"} |->
                     IF k = "query" THEN q ELSE a[i]]]

\* querymany(qs, ..., returnall=True): the hits in the order of the terms,
\* and the terms without a hit
RECURSIVE Respond(_, _)
Respond(qs, ans) ==
    IF qs = <<>> THEN [out |-> <<>>, missing |-> <<>>]
    ELSE LET r == Respond(Tail(qs), ans)
             q == Head(qs)
         IN  [out     |-> HitsOf(q, ans[q]) \o r.out,
              missing |-> IF ans[q] = <<>> THEN <<q>> \o r.missing
                          ELSE r.missing]

\* lines 80-84 and 89-93: for out in response['out']
RECURSIVE MergeOut(_, _)
MergeOut(ncbi_ids, out) ==
    IF out = <<>> THEN ncbi_ids
    ELSE LET hit == Head(out)
         IN  IF Has(hit, "entrezgene")
             THEN MergeOut(Put(ncbi_ids, hit["query"],
                               (IF Has(ncbi_ids, hit["query"])
                                THEN ncbi_ids[hit["query"]] ELSE <<>>)
                               \o <<hit["entrezgene"]>>),
                           Tail(out))
             ELSE MergeOut(ncbi_ids, Tail(out))

\* lines 79-84
FirstPass(out) == MergeOut(EmptyDict, out)

\* lines 89-93.  SecondPassDropped is the faulty variant that forgets the
\* results of the retry.
SecondPassDropped(ncbi_ids, out) == ncbi_ids

SecondPass(ncbi_ids, out) == MergeOut(ncbi_ids, out)

\* line 86: symbols.index(k) is the position of the first occurrence of k
RetryList(symbols, uniprot_ids, missing) ==
    [i \in DOMAIN missing |-> uniprot_ids[FirstAt(symbols, missing[i], 1)]]

\* line 94: unlist turns a list of one element into the element
Unlist(ncbi_ids) ==
    [k \in DOMAIN ncbi_ids |->
        IF Len(ncbi_ids[k]) = 1 THEN ncbi_ids[k][1] ELSE ncbi_ids[k]]

\* lines 76-95 as a function of the arguments and of the two answers
get_NCBI_id(symbols, uniprot_ids, ans1, ans2) ==
    LET r1    == Respond(symbols, ans1)
        retry == RetryList(symbols, uniprot_ids, r1.missing)
        r2    == Respond(retry, ans2)
    IN  Unlist(SecondPass(FirstPass(r1.out), r2.out))

\* the pairs of the lists passed by load_data are the elements of a set of
\* (protein identifier, symbol) pairs, in one order for both lists
NcbiPairs ==
    {<<"P1", "G1">>, <<"P2", "G1">>, <<"P2", "G2">>, <<"Q9", "Q9">>}

PairLists(S, n) ==
    {l \in UNION {[1..m -> S] : m \in 0..n} :
        \A i, j \in DOMAIN l : i # j => l[i] # l[j]}

InitNcbi ==
    /\ \E l \in PairLists(NcbiPairs, MaxGenes) :
          ncbi = [pc |-> "first",
                  symbols     |-> [i \in DOMAIN l |-> l[i][2]],
                  uniprot_ids |-> [i \in DOMAIN l |-> l[i][1]],
                  response1 |-> <<>>, retry |-> <<>>, response2 |-> <<>>,
                  ncbi_ids |-> EmptyDict, result |-> EmptyDict]
    /\ obo = 0 /\ oboRead = 0 /\ oboDone = FALSE
    /\ gaf = 0 /\ gafRead = <<>> /\ gafDone = FALSE
    /\ pc = "off" /\ goterms = 0 /\ fileNo = 0 /\ docs = 0 /\ idx = 0
    /\ annotations = 0 /\ NCBI_dict = 0 /\ calls = <<>> /\ visited = <<>>
    /\ output = <<>> /\ fault = "none"

\* lines 76-84: the query by symbol and the loop over its hits
FirstQuery ==
    /\ ncbi.pc = "first"
    /\ \E ans \in [Range(ncbi.symbols) -> Answers] :
          LET r == Respond(ncbi.symbols, ans)
          IN  ncbi' = [ncbi EXCEPT !.pc = "retry", !.response1 = r,
                                   !.ncbi_ids = FirstPass(r.out)]
    /\ UNCHANGED <<oboVars, gafVars, loadVars>>

\* lines 86-93: the retry by protein identifier and the loop over its hits
RetryQuery ==
    /\ ncbi.pc = "retry"
    /\ LET retry == RetryList(ncbi.symbols, ncbi.uniprot_ids,
                              ncbi.response1.missing)
       IN  \E ans \in [Range(retry) -> Answers] :
              LET r == Respond(retry, ans)
              IN  ncbi' = [ncbi EXCEPT !.pc = "unlist", !.retry = retry,
                              !.response2 = r,
                              !.ncbi_ids = SecondPass(ncbi.ncbi_ids, r.out)]
    /\ UNCHANGED <<oboVars, gafVars, loadVars>>

\* lines 94-95
NcbiReturn ==
    /\ ncbi.pc = "unlist"
    /\ ncbi' = [ncbi EXCEPT !.pc = "done", !.result = Unlist(ncbi.ncbi_ids)]
    /\ UNCHANGED <<oboVars, gafVars, loadVars>>

NextNcbi == FirstQuery \/ RetryQuery \/ NcbiReturn

SpecNcbi == InitNcbi /\ [][NextNcbi]_vars

(***************************************************************************)
(* Claims about get_NCBI_id (checked under SpecNcbi).                      *)
(***************************************************************************)
\* the second query returned a gene ID g for the term q
Returned2(q, g) ==
    \E i \in DOMAIN ncbi.response2.out :
        LET hit == ncbi.response2.out[i]
        IN  hit["query"] = q /\ Has(hit, "entrezgene") /\ hit["entrezgene"] = g

\* the entry of the returned mapping under key k holds the gene ID g: it is
\* g where unlist found a list of one element, and a list with g otherwise
Holds(k, g) ==
    IF Len(ncbi.ncbi_ids[k]) = 1 THEN ncbi.result[k] = g
    ELSE g \in Range(ncbi.result[k])

MissingAt(i) == ncbi.symbols[i] \in Range(ncbi.response1.missing)

\* C4 as stated: a symbol reported missing whose paired protein identifier
\* returns a gene ID in the second query: the returned mapping has the
\* protein identifier as a key holding that gene ID, and has not the symbol
\* as a key.
C4_Original ==
    ncbi.pc = "done" =>
        \A i \in DOMAIN ncbi.symbols : \A g \in GeneIds :
            (MissingAt(i) /\ Returned2(ncbi.uniprot_ids[i], g))
            => /\ Has(ncbi.result, ncbi.uniprot_ids[i])
               /\ Holds(ncbi.uniprot_ids[i], g)
               /\ ~Has(ncbi.result, ncbi.symbols[i])

\* C4 amended: ... and has the symbol as a key only when the symbol is
\* itself a term of the second query that returned a gene ID (a symbol that
\* is spelled like a protein identifier of the retry list).
C4_KeyedByMatchedTerm ==
    ncbi.pc = "done" =>
        \A i \in DOMAIN ncbi.symbols : \A g \in GeneIds :
            (MissingAt(i) /\ Returned2(ncbi.uniprot_ids[i], g))
            => /\ Has(ncbi.result, ncbi.uniprot_ids[i])
               /\ Holds(ncbi.uniprot_ids[i], g)
               /\ Has(ncbi.result, ncbi.symbols[i])
                  => \E h \in GeneIds : Returned2(ncbi.symbols[i], h)

\* C4 witness: a symbol was missing in pass 1, its protein identifier (another string)
\* resolved in pass 2, and the result is keyed by the protein identifier
\* only, beside a symbol that resolved in pass 1 under its own name
C4_Witness ==
    /\ ncbi.pc = "done"
    /\ \E i, j \in DOMAIN ncbi.symbols :
          /\ MissingAt(i) /\ Returned2(ncbi.uniprot_ids[i], 7)
          /\ ncbi.symbols[i] # ncbi.uniprot_ids[i]
          /\ Has(ncbi.result, ncbi.uniprot_ids[i])
          /\ ~Has(ncbi.result, ncbi.symbols[i])
          /\ ~MissingAt(j) /\ Has(ncbi.result, ncbi.symbols[j])

\* C8 as stated: for every position whose symbol is reported missing by the
\* first query, the protein identifier at that position is a term of the
\* retry query, also when a symbol occurs at several positions.
C8_Original ==
    ncbi.pc \in {"unlist", "done"} =>
        \A i \in DOMAIN ncbi.symbols :
            MissingAt(i) => ncbi.uniprot_ids[i] \in Range(ncbi.retry)

(***************************************************************************)
(* load_data: the assembly of one record (lines 30-68).                    *)
(***************************************************************************)
BucketKeys == <<"excluded_genes", "contributing_genes", "colocalized_genes">>

\* line 65.  KeysSetUpstream is the variant that copies only the keys that
\* parse_gaf and the assembler set.
KeysSetUpstream == <<"_id", "is_public", "taxid", "genes", "go">>

Keys == <<"_id", "date", "creator", "is_public", "taxid", "genes", "go">>

\* the orders in which a set can be iterated
Orders(S) ==
    {l \in [1..Cardinality(S) -> S] :
        \A i, j \in DOMAIN l : i # j => l[i] # l[j]}

\* lines 32-36: the go field is filled key by key; a term that is not in
\* goterms, or a record of goterms without the field read, is a KeyError
\* that leaves the go field as far as it was filled
AttachGo(rec, _id, gt) ==
    LET g0 == [k \in {"id"} |-> _id]
        td == gt.heap[gt.go_terms[_id]]
    IN  IF ~Has(gt.go_terms, _id) \/ ~Has(td, K_name)
        THEN [fault |-> TRUE, rec |-> Put(rec, "go", g0)]
        ELSE LET g1 == Put(g0, "name", td[K_name])
             IN  IF ~Has(td, K_ns)
                 THEN [fault |-> TRUE, rec |-> Put(rec, "go", g1)]
                 ELSE LET g2 == Put(g1, "type", td[K_ns])
                      IN  IF ~Has(td, K_def)
                          THEN [fault |-> TRUE, rec |-> Put(rec, "go", g2)]
                          ELSE [fault |-> FALSE,
                                rec |-> Put(rec, "go",
                                            Put(g2, "description", td[K_def]))]

\* lines 38-44 and 52-57: one gene as a dict, with its gene ID looked up by
\* symbol and, failing that, by protein identifier
GeneDict(pair, ncbi_dict) ==
    LET d == [k \in {"uniprot", "symbol"} |->
                 IF k = "uniprot" THEN pair[1] ELSE pair[2]]
    IN  IF Has(ncbi_dict, pair[2]) THEN Put(d, "ncbigene", ncbi_dict[pair[2]])
        ELSE IF Has(ncbi_dict, pair[1])
             THEN Put(d, "ncbigene", ncbi_dict[pair[1]])
             ELSE d

GeneList(order, ncbi_dict) ==
    [i \in DOMAIN order |-> GeneDict(order[i], ncbi_dict)]

\* line 37: annotations.get("genes") is not None.  HasMemberAlways is the
\* faulty variant that takes every record into the branch of lines 38-45.
HasMemberAlways(rec) == TRUE

HasMember(rec) == Has(rec, "genes")

\* lines 49-58: the buckets that are present become lists of gene dicts
RECURSIVE OtherBuckets(_, _, _, _)
OtherBuckets(rec, keys, ord, ncbi_dict) ==
    IF keys = <<>> THEN rec
    ELSE LET key == Head(keys)
         IN  OtherBuckets(IF Has(rec, key)
                          THEN Put(rec, key, GeneList(ord[key], ncbi_dict))
                          ELSE rec,
                          Tail(keys), ord, ncbi_dict)

\* the values dict_sweep takes for empty
EmptyVals == {<<>>, <<".">>, <<"-">>, <<"NA">>, <<"none">>, <<" ">>,
              <<"Not Available">>, <<"unknown">>}

\* dict_sweep on a dict of strings
SweepStr(d, strKeys) ==
    [k \in {x \in DOMAIN d : x \in strKeys => d[x] \notin EmptyVals} |-> d[k]]

\* line 60: dict_sweep drops the fields that hold an empty value, in the
\* record, in its go field and in each gene dict; a dict or list left
\* empty is dropped with its key
DictSweep(rec) ==
    LET sweptList(l) == [i \in DOMAIN l |->
                            SweepStr(l[i], {"uniprot", "symbol"})]
        r1 == SweepStr(rec, {"_id", "taxid"})
        r2 == [k \in DOMAIN r1 |->
                 IF k = "go"
                 THEN SweepStr(r1[k], {"id", "name", "type", "description"})
                 ELSE IF k \in Range(BucketKeys) \cup {"genes"}
                      THEN sweptList(r1[k])
                      ELSE r1[k]]
    IN  [k \in {x \in DOMAIN r2 :
                   /\ x = "go" => DOMAIN r2[x] # {}
                   /\ x \in Range(BucketKeys) \cup {"genes"} => r2[x] # <<>>}
            |-> r2[k]]

\* line 61: unlist turns a list of one element into the element
UnlistRecord(rec) ==
    [k \in DOMAIN rec |->
        IF k \in Range(BucketKeys) \cup {"genes"} /\ Len(rec[k]) = 1
        THEN rec[k][1] ELSE rec[k]]

\* lines 63-67: the _id is suffixed with the taxid, then the keys of line 65
\* are copied; a key that the record does not have is a KeyError
Reorder(rec) ==
    IF ~Has(rec, "_id") \/ ~Has(rec, "taxid")
    THEN [fault |-> TRUE, rec |-> rec, doc |-> EmptyDict]
    ELSE LET r == Put(rec, "_id", rec["_id"] \o <<"-">> \o rec["taxid"])
         IN  IF \E i \in DOMAIN Keys : ~Has(r, Keys[i])
             THEN [fault |-> TRUE, rec |-> r, doc |-> EmptyDict]
             ELSE [fault |-> FALSE, rec |-> r,
                   doc |-> [k \in Range(Keys) |-> r[k]]]

\* AssembleMemberFirst is the variant of Assemble (below) that tests the
\* member bucket first and attaches the ontology metadata afterwards.
AssembleMemberFirst(rec, _id, gt, ncbi_dict, ord) ==
    IF ~HasMember(rec)
    THEN [outcome |-> "skip", rec |-> rec, doc |-> EmptyDict]
    ELSE LET a == AttachGo(rec, _id, gt)
         IN  IF a.fault
             THEN [outcome |-> "lookup", rec |-> a.rec, doc |-> EmptyDict]
             ELSE LET r1 == Put(a.rec, "genes",
                                GeneList(ord["genes"], ncbi_dict))
                      r2 == OtherBuckets(r1, BucketKeys, ord, ncbi_dict)
                      r3 == UnlistRecord(DictSweep(r2))
                      r4 == Reorder(r3)
                  IN  [outcome |-> IF r4.fault THEN "reorder" ELSE "yield",
                       rec |-> r4.rec, doc |-> r4.doc]

\* lines 32-68 for one record of docs: what the iteration ends in ("lookup":
\* the KeyError of lines 34-36, "genes": the KeyError of line 39, "skip":
\* the continue of line 48, "reorder": the KeyError of lines 63-67, "yield"),
\* the record as the iteration leaves it, and the document yielded.
\* ord gives, per bucket, the order in which its set is iterated.
Assemble(rec, _id, gt, ncbi_dict, ord) ==
    LET a == AttachGo(rec, _id, gt)
    IN  IF a.fault
        THEN [outcome |-> "lookup", rec |-> a.rec, doc |-> EmptyDict]
        ELSE IF ~HasMember(a.rec)
        THEN [outcome |-> "skip", rec |-> a.rec, doc |-> EmptyDict]
        ELSE IF ~Has(a.rec, "genes")
        THEN [outcome |-> "genes", rec |-> a.rec, doc |-> EmptyDict]
        ELSE LET r1 == Put(a.rec, "genes", GeneList(ord["genes"], ncbi_dict))
                 r2 == OtherBuckets(r1, BucketKeys, ord, ncbi_dict)
                 r3 == UnlistRecord(DictSweep(r2))
                 r4 == Reorder(r3)
             IN  [outcome |-> IF r4.fault THEN "reorder" ELSE "yield",
                  rec |-> r4.rec, doc |-> r4.doc]

(***************************************************************************)
(* load_data, the generator (lines 8-68).  Its inputs are the files of the *)
(* data folder: go.obo and the *.gaf.gz files that glob finds.             *)
(***************************************************************************)
OboFull ==
    <<  <<"format-version", SepKV, "1.2", NL>>, L_blank,
        L_term, L_id("GO:1"), L_name, L_ns, L_def, L_alt("GO:2"), L_blank >>

OboNoDef == << L_term, L_id("GO:1"), L_name, L_ns, L_blank >>

OboNoId == << L_term, L_name, L_blank >>

OboFiles == {OboFull, OboNoDef, OboNoId}

LoadRows ==
    {GafRow("P1", "G1", <<>>, "GO:1", Tax9606),
     GafRow("P2", "G2", <<"NOT">>, "GO:1", Tax9606),
     GafRow("P1", "G1", <<"colocalizes_with">>, "GO:1", Tax9606),
     GafRow("P2", "G1", <<"colocalizes_with">>, "GO:2", Tax10090),
     GafRow("P1", "G1", <<>>, "GO:3", Tax9606),
     GafRow("P2", "G2", <<"colocalizes_with">>, "GO:3", Tax10090),
     R_comment, R_short}

LoadFiles == UNION {[1..n -> LoadRows] : n \in 0..MaxFileRows}

LoadAnswers == {<<>>, <<7>>}

AllBuckets == <<"genes", "excluded_genes", "contributing_genes",
                "colocalized_genes">>

\* lines 18-23: the union of the buckets of all records
AllGenes(gs) ==
    UNION {Bucket(gs.rec[t], AllBuckets[i]) :
              t \in DOMAIN gs.rec, i \in DOMAIN AllBuckets}

\* line 26: annotations is the loop variable of line 19 (and of line 30):
\* after the loop of line 19 it is the last record of docs; if docs is
\* empty it is what an earlier iteration left, or unbound.
\* CallRecordFirst is the faulty variant that takes the first record.
CallRecordFirst(gs, ann) ==
    IF gs.ord = <<>> THEN ann
    ELSE [bound |-> TRUE, rec |-> gs.rec[gs.ord[1]]]

CallRecord(gs, ann) ==
    IF gs.ord = <<>> THEN ann
    ELSE [bound |-> TRUE, rec |-> gs.rec[gs.ord[Len(gs.ord)]]]

Init ==
    /\ pc = "start" /\ goterms = OboInit /\ fileNo = 0
    /\ docs = GafInit /\ idx = 0
    /\ annotations = [bound |-> FALSE, rec |-> EmptyDict]
    /\ NCBI_dict = EmptyDict /\ calls = <<>> /\ visited = <<>>
    /\ output = <<>> /\ fault = "none"
    /\ obo = 0 /\ oboRead = 0 /\ oboDone = FALSE
    /\ gaf = 0 /\ gafRead = <<>> /\ gafDone = FALSE
    /\ ncbi = 0

\* lines 10-11
LoadOntology ==
    /\ pc = "start"
    /\ \E f \in OboFiles :
          LET st == parse_obo(f)
          IN  /\ goterms' = st
              /\ IF st.fault = "none"
                 THEN pc' = "glob" /\ fault' = "none"
                 ELSE pc' = "fault" /\ fault' = st.fault
    /\ UNCHANGED <<fileNo, docs, idx, annotations, NCBI_dict, calls, visited,
                   output, oboVars, gafVars, ncbiVars>>

\* lines 14-27: the next file is parsed, its genes are collected and the
\* resolver is called
NextFile ==
    /\ pc = "glob" /\ fileNo < MaxFiles
    /\ fileNo' = fileNo + 1
    /\ \E rows \in LoadFiles :
          LET gs  == parse_gaf(rows)
              ann == CallRecord(gs, annotations)
          IN  IF gs.fault # "none"
              THEN /\ pc' = "fault" /\ fault' = gs.fault
                   /\ UNCHANGED <<docs, idx, annotations, NCBI_dict, calls>>
              ELSE IF ~ann.bound
              THEN /\ pc' = "fault" /\ fault' = "UnboundLocalError"
                   /\ docs' = gs
                   /\ UNCHANGED <<idx, annotations, NCBI_dict, calls>>
              ELSE \E l \in Orders(AllGenes(gs)) :
                     LET uniprot == [i \in DOMAIN l |-> l[i][1]]
                         symbols == [i \in DOMAIN l |-> l[i][2]]
                         taxid   == ann.rec["taxid"]
                     IN  \E ans1 \in [Range(symbols) -> LoadAnswers] :
                         \E ans2 \in [Range(RetryList(symbols, uniprot,
                                        Respond(symbols, ans1).missing))
                                      -> LoadAnswers] :
                            /\ NCBI_dict' = get_NCBI_id(symbols, uniprot,
                                                        ans1, ans2)
                            /\ calls' = Append(calls,
                                          [file |-> fileNo + 1,
                                           taxid |-> taxid,
                                           symbols |-> symbols,
                                           uniprot |-> uniprot])
                            /\ docs' = gs /\ annotations' = ann
                            /\ idx' = 1 /\ pc' = "assemble"
                            /\ fault' = "none"
    /\ UNCHANGED <<goterms, visited, output, oboVars, gafVars, ncbiVars>>

\* lines 30-68: one iteration of the loop over docs.items()
AssembleRecord ==
    /\ pc = "assemble" /\ idx <= Len(docs.ord)
    /\ LET _id == docs.ord[idx]
           rec == docs.rec[_id]
       IN  \E og \in Orders(Bucket(rec, "genes")),
              oe \in Orders(Bucket(rec, "excluded_genes")),
              oc \in Orders(Bucket(rec, "contributing_genes")),
              ol \in Orders(Bucket(rec, "colocalized_genes")) :
             LET ord == [k \in Range(AllBuckets) |->
                           CASE k = "genes" -> og
                             [] k = "excluded_genes" -> oe
                             [] k = "contributing_genes" -> oc
                             [] k = "colocalized_genes" -> ol]
                 r == Assemble(rec, _id, goterms, NCBI_dict, ord)
             IN  /\ docs' = [docs EXCEPT !.rec[_id] = r.rec]
                 /\ annotations' = [bound |-> TRUE, rec |-> r.rec]
                 /\ visited' = Append(visited,
                                  [file |-> fileNo, term |-> _id,
                                   taxid |-> rec["taxid"],
                                   genes |-> Bucket(rec, "genes"),
                                   hasGenes |-> Has(rec, "genes"),
                                   outcome |-> r.outcome])
                 /\ output' = IF r.outcome = "yield"
                              THEN Append(output, [file |-> fileNo,
                                                   term |-> _id,
                                                   from |-> rec,
                                                   doc |-> r.doc])
                              ELSE output
                 /\ IF r.outcome \in {"skip", "yield"}
                    THEN idx' = idx + 1 /\ pc' = "assemble" /\ fault' = "none"
                    ELSE idx' = idx /\ pc' = "fault" /\ fault' = "KeyError"
    /\ UNCHANGED <<goterms, fileNo, NCBI_dict, calls, oboVars, gafVars,
                   ncbiVars>>

\* the loop of line 30 is over: back to line 14.  docs and NCBI_dict are
\* assigned by the next iteration before they are read, and the logs of
\* calls and visits are kept per file.
EndFile ==
    /\ pc = "assemble" /\ idx > Len(docs.ord)
    /\ pc' = "glob"
    /\ docs' = GafInit /\ idx' = 0 /\ NCBI_dict' = EmptyDict
    /\ calls' = <<>> /\ visited' = <<>>
    /\ UNCHANGED <<goterms, fileNo, annotations, output, fault, oboVars,
                   gafVars, ncbiVars>>

\* glob has no further file: the generator is exhausted
EndRun ==
    /\ pc = "glob"
    /\ pc' = "done"
    /\ UNCHANGED <<goterms, fileNo, docs, idx, annotations, NCBI_dict, calls,
                   visited, output, fault, oboVars, gafVars, ncbiVars>>

Next == LoadOntology \/ NextFile \/ AssembleRecord \/ EndFile \/ EndRun

Spec == Init /\ [][Next]_vars

(***************************************************************************)
(* Claims about load_data (checked under Spec).  visited and calls log the *)
(* records assembled and the resolver calls of the file being processed.   *)
(***************************************************************************)
InTable(t) == Has(goterms.go_terms, t)

\* the term is in the ontology table with the three fields that are read
TermKnown(t) ==
    /\ InTable(t)
    /\ {K_name, K_ns, K_def} \subseteq DOMAIN goterms.heap[goterms.go_terms[t]]

\* C2: a record without "genes" yields no document, whatever its other
\* buckets hold: the iteration on it ends in the continue of line 48 (or,
\* for a term the ontology does not know, in the KeyError of lines 34-36),
\* and every document yielded comes from a record with a non-empty "genes".
C2_MemberlessDropped ==
    /\ \A i \in DOMAIN visited :
          ~visited[i].hasGenes =>
              /\ visited[i].outcome =
                    (IF TermKnown(visited[i].term) THEN "skip" ELSE "lookup")
              /\ \A j \in DOMAIN output :
                    ~(output[j].file = visited[i].file
                      /\ output[j].term = visited[i].term)
    /\ \A j \in DOMAIN output :
          Has(output[j].from, "genes") /\ output[j].from["genes"] # {}

\* C2 witness: a record that holds only colocalized genes was visited and dropped, and
\* the loop went on to the following record
C2_Witness ==
    /\ Len(visited) >= 2
    /\ ~visited[1].hasGenes /\ visited[1].outcome = "skip"
    /\ Has(docs.rec[visited[1].term], "colocalized_genes")
    /\ output = <<>>

\* C6: no step before the reordering sets date or creator, so the first
\* record with a member bucket that reaches the reordering step ends the
\* run in a KeyError, and no document is ever yielded.
C6_ReorderKeyError ==
    /\ output = <<>>
    /\ \A t \in DOMAIN docs.rec :
          ~Has(docs.rec[t], "date") /\ ~Has(docs.rec[t], "creator")
    /\ \A i \in DOMAIN visited :
          visited[i].hasGenes =>
              /\ i = Len(visited) /\ pc = "fault" /\ fault = "KeyError"
              /\ TermKnown(visited[i].term) => visited[i].outcome = "reorder"

\* C6 witness: after a record without member bucket was skipped, the first record with
\* a member bucket raised the KeyError of the reordering step
C6_Witness ==
    /\ Len(visited) = 2 /\ pc = "fault" /\ fault = "KeyError"
    /\ visited[1].outcome = "skip"
    /\ visited[2].hasGenes /\ visited[2].outcome = "reorder"
    /\ output = <<>>

\* C7: a record whose term is not a key of the ontology table ends the run
\* in the KeyError of lines 34-36, with or without a member bucket; a file
\* whose loop of line 30 runs to its end has no such term.
C7_LookupFault ==
    /\ \A i \in DOMAIN visited :
          ~InTable(visited[i].term) =>
              /\ visited[i].outcome = "lookup"
              /\ i = Len(visited) /\ pc = "fault" /\ fault = "KeyError"
    /\ (pc = "assemble" /\ idx > Len(docs.ord))
       => \A i \in DOMAIN docs.ord : InTable(docs.ord[i])

\* C7 witness: a record without member bucket, of a term the table does not have, was
\* reached after another record had been skipped, and it aborted the run
C7_Witness ==
    /\ Len(visited) = 2 /\ pc = "fault"
    /\ visited[1].outcome = "skip"
    /\ ~visited[2].hasGenes /\ ~InTable(visited[2].term)
    /\ visited[2].outcome = "lookup"

\* C9: while a file's records are assembled the resolver has been called
\* exactly once for that file, with the genes of the whole file and with
\* the taxid of the last record of docs (of the record that the variable
\* annotations was left bound to, if docs is empty); no record is assembled
\* before that call.
C9_ResolverOncePerFile ==
    /\ Len(calls) <= 1
    /\ \A i \in DOMAIN visited :
          Len(calls) = 1 /\ calls[1].file = visited[i].file
    /\ pc = "assemble" =>
          /\ Len(calls) = 1 /\ calls[1].file = fileNo
          /\ {<<calls[1].uniprot[i], calls[1].symbols[i]>> :
                 i \in DOMAIN calls[1].symbols} = AllGenes(docs)
          /\ calls[1].taxid =
                (IF docs.ord = <<>> THEN annotations.rec["taxid"]
                 ELSE docs.rec[docs.ord[Len(docs.ord)]]["taxid"])

\* C9 witness: a file with two terms of different taxids: the one call was made with
\* the taxid of the last term, and the first term has been assembled
C9_Witness ==
    /\ pc = "assemble" /\ Len(docs.ord) = 2 /\ Len(visited) = 1
    /\ docs.rec[docs.ord[1]]["taxid"] # docs.rec[docs.ord[2]]["taxid"]
    /\ Len(calls) = 1
    /\ calls[1].taxid = docs.rec[docs.ord[2]]["taxid"]

====
